---- MODULE Spec2Model ----
(***************************************************************************)
(* Restaurant-system: the order lifecycle, order assembly, invoice         *)
(* lifecycle, stock adjustment, menu and kitchen of the REST backend, as   *)
(* state machines over the rows of the backing store.                      *)
(*                                                                         *)
(* The backing store executes one statement (insert / update / delete /    *)
(* select) atomically; a handler that issues one statement is one action,  *)
(* a handler that issues two (adjust_stock) is two.                        *)
(***************************************************************************)
EXTENDS Integers, Sequences, FiniteSets, TLC

VARIABLES
    now,            \* utils/timezone.py get_bogota_now(), in whole seconds
    orders,         \* table "orders": id -> row
    order_seq,      \* number of order ids issued so far (ids are never reused)
    order_items,    \* table "order_items": id -> row
    order_resp,     \* the response to the last request to /orders
    invoices,       \* table "invoices": id -> row
    invoice_seq,    \* number of invoice ids issued so far
    invoice_resp,   \* the response to the last request to /billing
    ingredients,    \* table "ingredients": id -> row
    adjust,         \* per caller of adjust_stock: the call it is in, or its last one
    inventory_resp, \* the response to the last request to /inventory/{id}/stock
    inventory_movements, \* table "inventory_movements": the rows, in insertion order
    n_notifications, \* NotificationSingleton._notifications
    b_order_items,  \* OrderBuilder._order_items
    b_order_data,   \* OrderBuilder._order_data: the totals, once calculated
    b_order,        \* the Order the builder built last
    f_order_item,   \* the OrderItem an order-system factory created last
    ib_invoice_data, \* InvoiceBuilder._invoice_data: the amounts, once set
    menu_items,     \* table "menu_items": id -> row
    kitchen_resp,   \* the response to the last request to /kitchen
    customers,      \* table "customers": id -> row
    loyalty,        \* per caller of add_loyalty_points: the call it is in, or its last one
    rl_time,        \* time.time() as RateLimitMiddleware reads it, in seconds
    rl_requests,    \* RateLimitMiddleware.requests: client ip -> times recorded
    rl_forwarded,   \* per client ip: the times of the requests passed to call_next
    rl_resp,        \* per client ip: the status code of its last request
    reservations,   \* table "reservations": id -> row (those of the date asked about)
    tables_resp,    \* the last get_available_tables call: its arguments and result
    s_instance,     \* cls._instance of a singleton class: 0 is None, else the instance
    s_initialized,  \* _initialized of the instance
    s_data,         \* what has been recorded on the instance (_logs, _cache, ...)
    s_pc,           \* per thread: where it is in constructing the singleton
    s_ret           \* per thread: the instance its last construction returned, 0 if none

order_vars == <<orders, order_seq, order_items, order_resp>>
billing_vars == <<invoices, invoice_seq, invoice_resp>>
inventory_vars == <<ingredients, adjust, inventory_resp, inventory_movements,
                   n_notifications>>
builder_vars == <<b_order_items, b_order_data, b_order, f_order_item, ib_invoice_data>>
menu_vars == <<menu_items>>
kitchen_vars == <<kitchen_resp>>
customer_vars == <<customers, loyalty>>
limiter_vars == <<rl_time, rl_requests, rl_forwarded, rl_resp>>
reservation_vars == <<reservations, tables_resp>>
singleton_vars == <<s_instance, s_initialized, s_data, s_pc, s_ret>>
support_vars == <<customer_vars, limiter_vars, reservation_vars, singleton_vars>>

vars == <<now, order_vars, billing_vars, inventory_vars, builder_vars,
          menu_vars, kitchen_vars, support_vars>>

----------------------------------------------------------------------------
(* Bounds of the model *)

MaxClock == 2
MaxOrders == 2
MaxOrderItems == 2
MaxQuantity == 2
MaxInvoices == 2
MaxStock == 5
MaxBuilderItems == 2

MenuItemIds == {"m1", "m2"}
CustomerIds == {"c1", "c2"}
ClientIps == {"ip1", "ip2"}
Threads == {"main", "t1", "t2"}
OrderIds == 1 .. MaxOrders
InvoiceIds == 1 .. MaxInvoices
IngredientIds == {"tomates", "queso"}
Callers == {"a", "b"}

NULL == "NULL"

----------------------------------------------------------------------------
(* models/entities.py *)

OrderStatus == {"pending", "preparing", "ready", "served", "cancelled"}

\* What a client may put in the body of PATCH /orders/{id}/status:
\* "confirmed" is a member of schemas.OrderStatus but not of the
\* entities.OrderStatus the route validates against.
RequestedStatuses == OrderStatus \cup {"confirmed"}

\* Order(...) as OrderService.create_order builds it
NewOrder(t) ==
    [order_number    |-> t,
     status_id       |-> NULL,
     subtotal        |-> 0,
     tax_amount      |-> 0,
     discount_amount |-> 0,
     total_amount    |-> 0]

\* OrderItem(...) as OrderService.add_order_item builds it
NewOrderItem(o, m, q) ==
    [order_id     |-> o,
     menu_item_id |-> m,
     quantity     |-> q,
     unit_price   |-> 0,
     total_price  |-> 0]

----------------------------------------------------------------------------
(* repositories *)

\* BaseRepository.get_by_id / the rows an update or delete ... .eq("id", id) matches
Found(table, id) == id \in DOMAIN table

\* BaseRepository.create
Insert(table, id, row) == table @@ (id :> row)

\* BaseRepository.delete
Delete(table, id) == [x \in DOMAIN table \ {id} |-> table[x]]

\* update_status as a statement that writes the status name when none is
\* stored and clears the column otherwise
update_status_alternating(o, status) ==
    IF Found(orders, o)
    THEN [orders EXCEPT ![o].status_id = IF @ = NULL THEN status ELSE NULL]
    ELSE orders

\* OrderRepository.update_status: the statement it executes
update_status(o, status) ==
    IF Found(orders, o) THEN [orders EXCEPT ![o].status_id = NULL] ELSE orders

\* OrderRepository.get_by_status
get_by_status(status) ==
    {o \in DOMAIN orders : orders[o].status_id = status}

----------------------------------------------------------------------------
(* services/order_service.py and api/routes/orders.py *)

NoResponse == [op |-> "none", code |-> 0, status |-> ""]

Response(op, code, status) == [op |-> op, code |-> code, status |-> status]

\* The status every OrderResponse built from a stored order carries
\* (get_order, get_orders, create_order, update_order): it is a literal
ReadStatus(o) == "pending"

\* The routes without "if not updated_order: raise HTTPException(404)"
StatusCodeUnchecked(found, built, ok) ==
    IF built THEN ok ELSE 500

\* routes: "if not updated_order: raise HTTPException(404)", and
\* "except Exception: raise HTTPException(500)"
StatusCode(found, built, ok) ==
    IF ~found THEN 404 ELSE IF built THEN ok ELSE 500

\* The items of the OrderCreate bodies sent: none, one item of the menu,
\* one item that is not on the menu
OrderCreateItems ==
    {<<>>,
     <<[menu_item_id |-> "m1", quantity |-> 1]>>,
     <<[menu_item_id |-> "m2", quantity |-> 1]>>}

\* POST /orders with body {items, ...}: the row is inserted, then the
\* response is built. The handler does not read items.
\* built = FALSE: building the response raises after the statement has run
\* (UUID(order.id) is applied to an id the entity holds as a UUID already),
\* the route answers 500 and the row stays.
CreateOrder(items) ==
    /\ order_seq < MaxOrders
    /\ LET o == order_seq + 1 IN
       /\ orders' = Insert(orders, o, NewOrder(now))
       /\ order_seq' = o
       /\ \E built \in BOOLEAN :
            order_resp' = Response("create_order", StatusCode(TRUE, built, 201),
                                   IF built THEN "pending" ELSE "")
    /\ UNCHANGED <<now, support_vars, menu_vars, kitchen_vars, order_items, billing_vars, inventory_vars, builder_vars>>

\* GET /orders/{id}
GetOrder(o) ==
    /\ \E built \in BOOLEAN :
         order_resp' = Response("get_order", StatusCode(Found(orders, o), built, 200),
                                IF Found(orders, o) /\ built THEN ReadStatus(o) ELSE "")
    /\ UNCHANGED <<now, support_vars, menu_vars, kitchen_vars, orders, order_seq, order_items, billing_vars, inventory_vars, builder_vars>>

\* PATCH /orders/{id}/status with body {status: new_status}. The statement
\* of update_status runs first; built = FALSE: what follows it raises
\* (update_status assigns updated_order.status, which Order does not
\* declare) and the route answers 500, the write stays.
UpdateOrderStatus(o, new_status) ==
    /\ IF new_status \notin OrderStatus
       THEN \* the body fails validation: 422, the handler does not run
            /\ order_resp' = Response("update_order_status", 422, "")
            /\ UNCHANGED orders
       ELSE \E built \in BOOLEAN :
            LET found == Found(orders, o) IN
            /\ orders' = update_status(o, new_status)
            /\ order_resp' = Response("update_order_status",
                                      StatusCode(found, built, 200),
                                      IF found /\ built THEN new_status ELSE "")
    /\ UNCHANGED <<now, support_vars, menu_vars, kitchen_vars, order_seq, order_items, billing_vars, inventory_vars, builder_vars>>

\* DELETE /orders/{id}
DeleteOrder(o) ==
    /\ LET found == Found(orders, o) IN
       /\ orders' = IF found THEN Delete(orders, o) ELSE orders
       /\ order_resp' = Response("delete_order", StatusCode(found, TRUE, 204), "")
    /\ UNCHANGED <<now, support_vars, menu_vars, kitchen_vars, order_seq, order_items, billing_vars, inventory_vars, builder_vars>>

\* POST /orders/{id}/items: the row is inserted with unit_price = 0.0 and
\* total_price = 0.0; OrderItemResponse requires both > 0, so building the
\* response raises and the route answers 500. quantity is validated by
\* OrderItemCreate (0 < quantity <= 50) before the handler runs.
AddOrderItem(o, m, q) ==
    /\ IF q < 1
       THEN /\ order_resp' = Response("add_order_item", 422, "")
            /\ UNCHANGED order_items
       ELSE /\ Cardinality(DOMAIN order_items) < MaxOrderItems
            /\ order_items' = Insert(order_items,
                                     Cardinality(DOMAIN order_items) + 1,
                                     NewOrderItem(o, m, q))
            /\ order_resp' = Response("add_order_item", 500, "")
    /\ UNCHANGED <<now, support_vars, menu_vars, kitchen_vars, orders, order_seq, billing_vars, inventory_vars, builder_vars>>

----------------------------------------------------------------------------
(* models/entities.py, models/schemas.py: invoices *)

InvoiceStatus == {"pending", "paid", "cancelled", "refunded"}

\* What a client may pass as payment_status of PATCH /billing/{id}/payment:
\* any string (the route declares payment_status: str)
PaymentStatuses == InvoiceStatus \cup {"PAID", "completed"}

\* The amounts of the InvoiceCreate bodies sent, in cents: InvoiceCreate
\* accepts every amount >= 0
InvoiceAmounts ==
    {[subtotal |-> 0, tax_amount |-> 0, discount_amount |-> 0, total_amount |-> 0],
     [subtotal |-> 2598, tax_amount |-> 492, discount_amount |-> 0, total_amount |-> 3090]}

\* Optional[datetime]: None is {}, a time t is {t}
None == {}
Some(t) == {t}

\* Invoice(...) as BillingService.create_invoice builds it
NewInvoice(order_id, amounts, t) ==
    [invoice_number |-> t,
     order_id       |-> order_id,
     amounts        |-> amounts,
     status         |-> "pending",
     issued_at      |-> t,
     paid_at        |-> None]

\* InvoiceResponse(...): subtotal and total_amount are declared gt=0, the
\* constructor raises for a stored invoice that has either at 0
InvoiceResponseValid(row) ==
    row.amounts.subtotal > 0 /\ row.amounts.total_amount > 0

----------------------------------------------------------------------------
(* repositories/billing_repository.py *)

\* update_invoice_payment_status as a statement that also clears the
\* amounts of an invoice it marks refunded
update_invoice_payment_status_amounts(i, status) ==
    IF Found(invoices, i)
    THEN [invoices EXCEPT ![i] =
            [@ EXCEPT !.status = status,
                      !.paid_at = IF status = "paid" THEN Some(now) ELSE @,
                      !.amounts = IF status = "refunded"
                                  THEN [subtotal |-> 0, tax_amount |-> 0,
                                        discount_amount |-> 0, total_amount |-> 0]
                                  ELSE @]]
    ELSE invoices

\* BillingRepository.update_invoice_payment_status: the statement it executes
update_invoice_payment_status(i, status) ==
    IF Found(invoices, i)
    THEN [invoices EXCEPT ![i] =
            [@ EXCEPT !.status = status,
                      !.paid_at = IF status = "paid" THEN Some(now) ELSE @]]
    ELSE invoices

----------------------------------------------------------------------------
(* services/billing_service.py and api/routes/billing.py *)

\* str.lower() on the strings of PaymentStatuses
lower(s) == IF s = "PAID" THEN "paid" ELSE s

\* status_mapping.get(status.lower(), InvoiceStatus.PENDING)
status_mapping(s) == IF lower(s) \in InvoiceStatus THEN lower(s) ELSE "pending"

NoInvoiceResponse == [op |-> "none", code |-> 0, status |-> "", paid_at |-> None]

\* The answer of a billing route: the InvoiceResponse of the stored row, 404
\* when the repository returned None, 500 when building the response raised
InvoiceAnswer(op, table, i, ok) ==
    IF ~Found(table, i)
    THEN [op |-> op, code |-> 404, status |-> "", paid_at |-> None]
    ELSE IF ~InvoiceResponseValid(table[i])
    THEN [op |-> op, code |-> 500, status |-> "", paid_at |-> None]
    ELSE [op |-> op, code |-> ok, status |-> table[i].status,
          paid_at |-> table[i].paid_at]

\* POST /billing with body {order_id, subtotal, ...}
CreateInvoice(o, amounts) ==
    /\ invoice_seq < MaxInvoices
    /\ LET i == invoice_seq + 1 IN
       /\ invoices' = Insert(invoices, i, NewInvoice(o, amounts, now))
       /\ invoice_seq' = i
       /\ invoice_resp' = InvoiceAnswer("create_invoice", invoices', i, 201)
    /\ UNCHANGED <<now, support_vars, menu_vars, kitchen_vars, order_vars, inventory_vars, builder_vars>>

\* GET /billing/{id}
GetInvoice(i) ==
    /\ invoice_resp' = InvoiceAnswer("get_invoice", invoices, i, 200)
    /\ UNCHANGED <<now, support_vars, menu_vars, kitchen_vars, order_vars, inventory_vars, builder_vars, invoices, invoice_seq>>

\* PATCH /billing/{id}/payment?payment_status=...
UpdatePaymentStatus(i, payment_status) ==
    /\ invoices' = update_invoice_payment_status(i, status_mapping(payment_status))
    /\ invoice_resp' = InvoiceAnswer("update_payment_status", invoices', i, 200)
    /\ UNCHANGED <<now, support_vars, menu_vars, kitchen_vars, order_vars, inventory_vars, builder_vars, invoice_seq>>

----------------------------------------------------------------------------
(* repositories/inventory_repository.py: IngredientRepository *)

\* The adjustments adjust_stock is called with
Adjustments == {0 - 10, 0 - 2, 3}

Max(a, b) == IF a >= b THEN a ELSE b

\* adjust_stock without the floor
NewStockUnclamped(current_stock, adjustment) ==
    current_stock + adjustment

\* adjust_stock: new_stock = max(0, ingredient.current_stock + adjustment)
NewStock(current_stock, adjustment) ==
    Max(0, current_stock + adjustment)

\* IngredientRepository.update_stock: the statement it executes
update_stock(table, i, new_stock) ==
    IF Found(table, i) THEN [table EXCEPT ![i].current_stock = new_stock] ELSE table

Idle == [pc |-> "idle", ingredient_id |-> "", adjustment |-> 0,
         current_stock |-> 0, returned |-> None]

\* get_by_id answering with a blank ingredient for an id that has no row
get_by_id_blank(table, i) ==
    IF Found(table, i) THEN Some(table[i])
    ELSE Some([current_stock |-> 0, min_stock |-> 0])

\* BaseRepository.get_by_id: the entity of the row, None when there is none
get_by_id(table, i) ==
    IF Found(table, i) THEN Some(table[i]) ELSE None

\* adjust_stock, first statement: ingredient = self.get_by_id(ingredient_id);
\* "if not ingredient: return None"
AdjustStockRead(c, i, adjustment) ==
    /\ adjust[c].pc # "read"
    /\ LET ingredient == get_by_id(ingredients, i) IN
       IF ingredient # None
       THEN \E row \in ingredient :
            /\ row.current_stock + adjustment <= MaxStock
            /\ adjust' = [adjust EXCEPT ![c] =
                   [pc |-> "read", ingredient_id |-> i, adjustment |-> adjustment,
                    current_stock |-> row.current_stock,
                    returned |-> None]]
       ELSE adjust' = [adjust EXCEPT ![c] =
                   [pc |-> "returned", ingredient_id |-> i, adjustment |-> adjustment,
                    current_stock |-> 0, returned |-> None]]
    /\ UNCHANGED <<now, support_vars, menu_vars, kitchen_vars, order_vars, billing_vars, builder_vars, ingredients, inventory_resp,
                   inventory_movements, n_notifications>>

\* adjust_stock, second statement: self.update_stock(ingredient_id, new_stock),
\* then the updated ingredient is returned (None when update_stock matched no
\* row). movement_data is built and dropped: nothing is inserted into
\* inventory_movements, the adjustment is only logged; notify is not called.
AdjustStockWrite(c) ==
    /\ adjust[c].pc = "read"
    /\ LET i == adjust[c].ingredient_id
           new_stock == NewStock(adjust[c].current_stock, adjust[c].adjustment)
       IN /\ ingredients' = update_stock(ingredients, i, new_stock)
          /\ adjust' = [adjust EXCEPT ![c].pc = "returned",
                                      ![c].returned =
                                          IF Found(ingredients', i)
                                          THEN Some(ingredients'[i].current_stock)
                                          ELSE None]
    /\ UNCHANGED <<now, support_vars, menu_vars, kitchen_vars, order_vars, billing_vars, builder_vars, inventory_resp,
                   inventory_movements, n_notifications>>

----------------------------------------------------------------------------
(* services/inventory_service.py and api/routes/inventory.py *)

NoStockResponse == [code |-> 0, current_stock |-> 0]

\* PATCH /inventory/{id}/stock?quantity=...: quantity is declared ge=0;
\* InventoryService.update_stock answers with an InventoryItemResponse of
\* its own making and does not touch the table
UpdateStock(i, quantity) ==
    /\ inventory_resp' = IF quantity < 0
                         THEN [code |-> 422, current_stock |-> 0]
                         ELSE [code |-> 200, current_stock |-> quantity]
    /\ UNCHANGED <<now, support_vars, menu_vars, kitchen_vars, order_vars, billing_vars, builder_vars, ingredients, adjust,
                   inventory_movements, n_notifications>>

----------------------------------------------------------------------------
(* services/menu_service.py, repositories/menu_repository.py, api/routes/menu.py *)

\* The MenuItemUpdate bodies sent: every field is optional, only the fields
\* that are set are written (item_data.dict(exclude_unset=True)); price > 0
MenuItemUpdates ==
    {[price |-> 129900], [price |-> 149900],
     [is_available |-> FALSE], [is_available |-> TRUE]}

\* SupabaseMenuRepository.update_menu_item: the statement it executes
update_menu_item(m, item_data) ==
    IF Found(menu_items, m)
    THEN [menu_items EXCEPT ![m] =
            [f \in DOMAIN @ |-> IF f \in DOMAIN item_data THEN item_data[f] ELSE @[f]]]
    ELSE menu_items

\* PUT /menu/items/{id}
UpdateMenuItem(m, item_data) ==
    /\ menu_items' = update_menu_item(m, item_data)
    /\ UNCHANGED <<now, support_vars, kitchen_vars, order_vars, billing_vars, inventory_vars, builder_vars>>

----------------------------------------------------------------------------
(* services/kitchen_service.py and api/routes/kitchen.py. KitchenService
   holds no table: what it returns is built in the call. *)

\* order_id of the ticket the service answers reads with,
\* UUID("123e4567-e89b-12d3-a456-426614174001"): the id of no stored order
SampleOrderId == 0

\* The KitchenOrderResponse of get_kitchen_orders and get_kitchen_order
SampleKitchenOrder ==
    [order_id |-> SampleOrderId,
     status   |-> "preparing",
     items    |-> {[name |-> "Ensalada César", quantity |-> 2]}]

\* KitchenService.get_kitchen_orders: the tickets the kitchen has
get_kitchen_orders == {SampleKitchenOrder}

\* The items of the KitchenOrderCreate bodies sent
KitchenItems == {{}, {[name |-> "m1", quantity |-> 1]}}

NoKitchenResponse == [op |-> "none", code |-> 0, tickets |-> {}]

\* POST /kitchen: the body is echoed with status "pending"; nothing is stored
CreateKitchenOrder(o, items) ==
    /\ kitchen_resp' = [op |-> "create_kitchen_order", code |-> 201,
                        tickets |-> {[order_id |-> o, status |-> "pending",
                                      items |-> items]}]
    /\ UNCHANGED <<now, support_vars, menu_vars, order_vars, billing_vars, inventory_vars, builder_vars>>

\* GET /kitchen
GetKitchenOrders ==
    /\ kitchen_resp' = [op |-> "get_kitchen_orders", code |-> 200,
                        tickets |-> get_kitchen_orders]
    /\ UNCHANGED <<now, support_vars, menu_vars, order_vars, billing_vars, inventory_vars, builder_vars>>

----------------------------------------------------------------------------
(* patterns/builder.py: OrderBuilder. Amounts are in 1/10000 of the currency
   unit, so that 19 % of an amount of whole cents is a whole number. *)

\* calculate_totals(tax_rate=0.19, ...), in percent
tax_rate == 19

\* The unit_price add_order_item is called with for each menu item:
\* 12.99 and 18.99
unit_price_of(m) == IF m = "m1" THEN 129900 ELSE 189900

\* The discount_amount calculate_totals is called with: 0.0 (the default) and 1.00
Discounts == {0, 10000}

RECURSIVE sum_total_price(_)
\* sum(item["total_price"] for item in self._order_items)
sum_total_price(items) ==
    IF items = <<>> THEN 0
    ELSE Head(items).total_price + sum_total_price(Tail(items))

\* OrderBuilder.add_order_item
BuilderAddOrderItem(m, q) ==
    /\ Len(b_order_items) < MaxBuilderItems
    /\ b_order_items' = Append(b_order_items,
                               [menu_item_id |-> m,
                                quantity     |-> q,
                                unit_price   |-> unit_price_of(m),
                                total_price  |-> q * unit_price_of(m)])
    /\ UNCHANGED <<now, support_vars, menu_vars, kitchen_vars, order_vars, billing_vars, inventory_vars, b_order_data, b_order, f_order_item, ib_invoice_data>>

\* OrderBuilder.calculate_totals
CalculateTotals(discount_amount) ==
    /\ LET subtotal == sum_total_price(b_order_items)
           tax_amount == (subtotal * tax_rate) \div 100
           total_amount == subtotal + tax_amount - discount_amount
       IN b_order_data' = Some([subtotal        |-> subtotal,
                                tax_amount      |-> tax_amount,
                                discount_amount |-> discount_amount,
                                total_amount    |-> total_amount])
    /\ UNCHANGED <<now, support_vars, menu_vars, kitchen_vars, order_vars, billing_vars, inventory_vars, b_order_items, b_order, f_order_item, ib_invoice_data>>

\* The totals of Order(**self._order_data): the entity's defaults (0.0)
\* where calculate_totals has not put a value
OrderTotals ==
    IF b_order_data = None
    THEN [subtotal |-> 0, tax_amount |-> 0, discount_amount |-> 0, total_amount |-> 0]
    ELSE CHOOSE d \in b_order_data : TRUE

\* OrderBuilder.build: the order carries the totals of _order_data; its
\* items are the _order_items of the builder, kept beside it
Build ==
    /\ b_order' = Some([totals |-> OrderTotals, items |-> b_order_items])
    /\ UNCHANGED <<now, support_vars, menu_vars, kitchen_vars, order_vars, billing_vars, inventory_vars, b_order_items, b_order_data, f_order_item, ib_invoice_data>>

----------------------------------------------------------------------------
(* patterns/builder.py: InvoiceBuilder *)

\* The (subtotal, tax_amount, discount_amount) set_amounts is called with:
\* 25.98 + 4.94 with no discount, with a discount of 1.00 and with one of 30.00
BuilderAmounts ==
    {[subtotal |-> 259800, tax_amount |-> 49400, discount_amount |-> d] :
        d \in {0, 10000, 300000}}

\* InvoiceBuilder.set_amounts
SetAmounts(a) ==
    /\ ib_invoice_data' =
          Some([subtotal        |-> a.subtotal,
                tax_amount      |-> a.tax_amount,
                discount_amount |-> a.discount_amount,
                total_amount    |-> a.subtotal + a.tax_amount - a.discount_amount])
    /\ UNCHANGED <<now, support_vars, menu_vars, kitchen_vars, order_vars, billing_vars, inventory_vars,
                   b_order_items, b_order_data, b_order, f_order_item>>

----------------------------------------------------------------------------
(* patterns/abstract_factory.py: DineInSystemFactory, TakeawaySystemFactory
   and DeliverySystemFactory have the same create_order_item *)

\* The item_data create_order_item is called with: any dict of the fields
\* of OrderItem, here with a total_price that is the product of the other
\* two or the price of one unit
FactoryItemData ==
    {[menu_item_id |-> m, quantity |-> q, unit_price |-> unit_price_of(m),
      total_price |-> t] :
        m \in MenuItemIds, q \in 1 .. MaxQuantity,
        t \in {unit_price_of("m1"), 2 * unit_price_of("m1"),
               unit_price_of("m2"), 2 * unit_price_of("m2")}}

\* create_order_item: OrderItem(**item_data)
FactoryCreateOrderItem(item_data) ==
    /\ f_order_item' = Some(item_data)
    /\ UNCHANGED <<now, support_vars, menu_vars, kitchen_vars, order_vars, billing_vars, inventory_vars,
                   b_order_items, b_order_data, b_order, ib_invoice_data>>

----------------------------------------------------------------------------
(* repositories/customer_repository.py: CustomerRepository *)

MaxPoints == 200

\* The points add_loyalty_points is called with: any integer
PointsToAdd == {0 - 50, 100}

\* The points update_loyalty_points is called with directly
PointsSet == {0, 100}

\* CustomerRepository.update_loyalty_points: the statement it executes
update_loyalty_points(table, k, points) ==
    IF Found(table, k) THEN [table EXCEPT ![k].loyalty_points = points] ELSE table

\* CustomerRepository.update_loyalty_points, called on its own
UpdateLoyaltyPoints(k, points) ==
    /\ customers' = update_loyalty_points(customers, k, points)
    /\ UNCHANGED <<now, order_vars, billing_vars, inventory_vars, builder_vars,
                   menu_vars, kitchen_vars, loyalty,
                   limiter_vars, reservation_vars, singleton_vars>>

\* add_loyalty_points, first statement: customer = self.get_by_id(customer_id);
\* None is returned when there is no such customer
AddLoyaltyPointsRead(c, k, points_to_add) ==
    /\ loyalty[c].pc # "read"
    /\ LET customer == get_by_id(customers, k) IN
       IF customer # None
       THEN \E row \in customer :
            /\ row.loyalty_points + points_to_add <= MaxPoints
            /\ row.loyalty_points + points_to_add >= 0 - MaxPoints
            /\ loyalty' = [loyalty EXCEPT ![c] =
                   [pc |-> "read", customer_id |-> k, points_to_add |-> points_to_add,
                    loyalty_points |-> row.loyalty_points]]
       ELSE loyalty' = [loyalty EXCEPT ![c] =
                   [pc |-> "returned", customer_id |-> k,
                    points_to_add |-> points_to_add, loyalty_points |-> 0]]
    /\ UNCHANGED <<now, order_vars, billing_vars, inventory_vars, builder_vars,
                   menu_vars, kitchen_vars, customers,
                   limiter_vars, reservation_vars, singleton_vars>>

\* add_loyalty_points, second statement:
\* self.update_loyalty_points(customer_id, customer.loyalty_points + points_to_add)
AddLoyaltyPointsWrite(c) ==
    /\ loyalty[c].pc = "read"
    /\ customers' = update_loyalty_points(customers, loyalty[c].customer_id,
                                          loyalty[c].loyalty_points + loyalty[c].points_to_add)
    /\ loyalty' = [loyalty EXCEPT ![c].pc = "returned"]
    /\ UNCHANGED <<now, order_vars, billing_vars, inventory_vars, builder_vars,
                   menu_vars, kitchen_vars,
                   limiter_vars, reservation_vars, singleton_vars>>

----------------------------------------------------------------------------
(* services/menu_service.py: the two creation paths of MenuService, with
   patterns/factory.py and patterns/prototype.py *)

\* The ids uuid4() gives to created menu items
CreatedMenuItemIds == {"m3", "m4"}

\* Prices of the item_data given to create_menu_item
MenuItemCreates == {[price |-> 0], [price |-> 109900]}

\* The price of the "salad_template" prototype, 10.99
template_price == 109900

\* The customizations given to create_menu_item_from_template
Customizations == {[size |-> "medium"], [price |-> 0], [price |-> 89900]}

\* MenuItemPrototype.customize: the copy of the template takes the price of
\* the customizations when they carry one
customize(customizations) ==
    [price |-> IF "price" \in DOMAIN customizations
               THEN customizations.price ELSE template_price,
     is_available |-> TRUE]

\* SupabaseMenuRepository.create_menu_item: the row inserted
create_menu_item(m, item_dict) ==
    [k \in DOMAIN menu_items \cup {m} |-> IF k = m THEN item_dict ELSE menu_items[k]]

\* MenuService.create_menu_item: MenuItemFactory.create_menu_item raises on a
\* price <= 0 before the insert
CreateMenuItem(m, item_data) ==
    /\ ~Found(menu_items, m)
    /\ menu_items' = IF item_data.price <= 0
                     THEN menu_items
                     ELSE create_menu_item(m, [price |-> item_data.price, is_available |-> TRUE])
    /\ UNCHANGED <<now, support_vars, kitchen_vars, order_vars, billing_vars, inventory_vars, builder_vars>>

\* MenuService.create_menu_item_from_template: the customized copy is inserted
CreateMenuItemFromTemplate(m, customizations) ==
    /\ ~Found(menu_items, m)
    /\ menu_items' = create_menu_item(m, customize(customizations))
    /\ UNCHANGED <<now, support_vars, kitchen_vars, order_vars, billing_vars, inventory_vars, builder_vars>>

----------------------------------------------------------------------------
(* api/middleware.py: RateLimitMiddleware. dispatch has no await between
   reading self.requests and appending to it, so one dispatch up to call_next
   is one step of the event loop. *)

\* The latest time.time() read, in seconds
MaxTime == 90

\* The seconds that pass between two requests
TimeSteps == {30}

\* RateLimitMiddleware(app, requests_per_minute): the limit it was built with
\* (60 by default)
requests_per_minute == 2

\* "current_time - req_time < 60": how long a recorded request counts
Window == 60

\* time.time() moves on
TimePasses(d) ==
    /\ rl_time + d <= MaxTime
    /\ rl_time' = rl_time + d
    /\ UNCHANGED <<now, order_vars, billing_vars, inventory_vars, builder_vars, menu_vars, kitchen_vars,
                   customer_vars, reservation_vars, singleton_vars, rl_requests, rl_forwarded, rl_resp>>

\* "Limpiar requests antiguos": the list of the client without the entries of
\* a minute ago or older; an empty list for a client not seen before
recent_requests(client_ip, current_time) ==
    IF client_ip \in DOMAIN rl_requests
    THEN SelectSeq(rl_requests[client_ip], LAMBDA req_time : current_time - req_time < Window)
    ELSE <<>>

\* The test with > for >=: one request more than the limit is let through
limit_reached_above(n) == n > requests_per_minute

\* "Verificar rate limit"
limit_reached(n) == n >= requests_per_minute

\* self.requests with the list of client_ip replaced
with_requests(client_ip, req_times) ==
    [k \in DOMAIN rl_requests \cup {client_ip} |->
        IF k = client_ip THEN req_times ELSE rl_requests[k]]

\* RateLimitMiddleware.dispatch for a request of client_ip at rl_time
Dispatch(client_ip) ==
    LET current_time == rl_time
        kept == recent_requests(client_ip, current_time)
    IN  /\ IF limit_reached(Len(kept))
           THEN /\ rl_requests' = with_requests(client_ip, kept)
                /\ rl_resp' = [rl_resp EXCEPT ![client_ip] = 429]
                /\ UNCHANGED rl_forwarded
           ELSE /\ rl_requests' = with_requests(client_ip, Append(kept, current_time))
                /\ rl_forwarded' = [rl_forwarded EXCEPT ![client_ip] = Append(@, current_time)]
                /\ rl_resp' = [rl_resp EXCEPT ![client_ip] = 200]
        /\ UNCHANGED <<now, order_vars, billing_vars, inventory_vars, builder_vars, menu_vars, kitchen_vars,
                       customer_vars, reservation_vars, singleton_vars, rl_time>>

----------------------------------------------------------------------------
(* repositories/customer_repository.py: ReservationRepository. The rows are
   the reservations of one reservation_date; a time "HH:MM:SS" is the tuple
   <<HH, MM, SS>>. *)

MaxReservations == 2

ReservationIds == 1 .. MaxReservations

\* Table "tables": the active tables
TableIds == {"mesa1", "mesa2"}

\* 12:00:00, 23:00:00 and 23:30:00
ReservationTimes == {<<12, 0, 0>>, <<23, 0, 0>>, <<23, 30, 0>>}

\* Minutes; 120 is the default
Durations == {60, 120}

ReservationStatus == {"pending", "confirmed", "seated", "cancelled"}

\* The seconds of a day: time() of a datetime drops the date
SecondsPerDay == 86400

\* datetime.strptime(time, "%H:%M:%S").time(), as seconds since midnight
strptime_time(time) == time[1] * 3600 + time[2] * 60 + time[3]

\* (datetime.combine(today, t) + timedelta(minutes=duration)).time()
end_time(t, duration) == (t + duration * 60) % SecondsPerDay

\* ReservationRepository._time_conflicts
time_conflicts(time1, time2, duration1, duration2) ==
    LET t1 == strptime_time(time1)
        t2 == strptime_time(time2)
        t1_end == end_time(t1, duration1)
        t2_end == end_time(t2, duration2)
    IN  ~(t1_end <= t2 \/ t2_end <= t1)

\* ReservationRepository.get_available_tables: the list it returns
get_available_tables(time, duration) ==
    LET occupied_tables ==
            {reservations[r].table_id : r \in
                {r \in DOMAIN reservations :
                    /\ reservations[r].status \in {"confirmed", "seated"}
                    /\ time_conflicts(reservations[r].reservation_time, time,
                                      reservations[r].duration, duration)}}
    IN  TableIds \ occupied_tables

\* BaseRepository.create on "reservations": status is "pending" unless given
CreateReservation(table_id, time, duration) ==
    /\ Len(reservations) < MaxReservations
    /\ reservations' = Append(reservations,
            [table_id |-> table_id, reservation_time |-> time,
             duration |-> duration, status |-> "pending"])
    /\ UNCHANGED <<now, order_vars, billing_vars, inventory_vars, builder_vars, menu_vars, kitchen_vars,
                   customer_vars, limiter_vars, singleton_vars, tables_resp>>

\* ReservationRepository.update_status
UpdateReservationStatus(r, status) ==
    /\ r \in DOMAIN reservations
    /\ reservations' = [reservations EXCEPT ![r].status = status]
    /\ UNCHANGED <<now, order_vars, billing_vars, inventory_vars, builder_vars, menu_vars, kitchen_vars,
                   customer_vars, limiter_vars, singleton_vars, tables_resp>>

\* A call of get_available_tables(date, time, duration)
GetAvailableTables(time, duration) ==
    /\ tables_resp' = [time |-> time, duration |-> duration,
                       available |-> get_available_tables(time, duration)]
    /\ UNCHANGED <<now, order_vars, billing_vars, inventory_vars, builder_vars, menu_vars, kitchen_vars,
                   customer_vars, limiter_vars, singleton_vars, reservations>>

----------------------------------------------------------------------------
(* patterns/singleton.py: one singleton class (LoggerSingleton; the cache,
   notification and configuration classes have the same __new__ and __init__).
   A construction Cls() runs __new__ and then __init__ on what it returned;
   each read or write of a shared attribute is one step of a thread. The
   thread "main" is the one that imports the module. *)

\* What a method call records on the instance (a log entry, a cache key, ...)
Entries == {"e1", "e2"}

\* The module ends with "logger = LoggerSingleton()": the import builds the
\* instance before the class can be reached, so any other thread constructs
\* only after the first construction has returned
MayConstruct(t) == t = "main" \/ s_ret["main"] # 0

\* cls._instance._initialized has been assigned (it is assigned one statement
\* after cls._instance, under the lock)
has_initialized == \A u \in Threads : s_pc[u] # "newflag"

\* __init__ that sets the attributes up on every construction
needs_init_always(initialized) == TRUE

\* __init__: "if not self._initialized"
needs_init(initialized) == ~initialized

\* __new__: "if cls._instance is None", outside the lock
SingletonNewCheck(t) ==
    /\ s_pc[t] = "idle"
    /\ MayConstruct(t)
    /\ s_pc' = [s_pc EXCEPT ![t] = IF s_instance = 0 THEN "lock" ELSE "init"]
    /\ UNCHANGED <<now, order_vars, billing_vars, inventory_vars, builder_vars, menu_vars, kitchen_vars,
                   customer_vars, limiter_vars, reservation_vars, s_instance, s_initialized, s_data, s_ret>>

\* __new__: "with cls._lock: if cls._instance is None: cls._instance = ..."
SingletonNewCreate(t) ==
    /\ s_pc[t] = "lock"
    /\ \A u \in Threads : s_pc[u] # "newflag"
    /\ IF s_instance = 0
       THEN /\ s_instance' = 1
            /\ s_pc' = [s_pc EXCEPT ![t] = "newflag"]
       ELSE /\ s_pc' = [s_pc EXCEPT ![t] = "init"]
            /\ UNCHANGED s_instance
    /\ UNCHANGED <<now, order_vars, billing_vars, inventory_vars, builder_vars, menu_vars, kitchen_vars,
                   customer_vars, limiter_vars, reservation_vars, s_initialized, s_data, s_ret>>

\* __new__: "cls._instance._initialized = False", still under the lock
SingletonNewFlag(t) ==
    /\ s_pc[t] = "newflag"
    /\ s_initialized' = FALSE
    /\ s_pc' = [s_pc EXCEPT ![t] = "init"]
    /\ UNCHANGED <<now, order_vars, billing_vars, inventory_vars, builder_vars, menu_vars, kitchen_vars,
                   customer_vars, limiter_vars, reservation_vars, s_instance, s_data, s_ret>>

\* __init__: "if not self._initialized"; nothing else to do when it is set,
\* and the construction returns; an AttributeError when the attribute does not
\* exist yet, and the construction returns nothing
SingletonInitCheck(t) ==
    /\ s_pc[t] = "init"
    /\ IF ~has_initialized
       THEN /\ s_pc' = [s_pc EXCEPT ![t] = "idle"]
            /\ UNCHANGED s_ret
       ELSE IF needs_init(s_initialized)
       THEN /\ s_pc' = [s_pc EXCEPT ![t] = "assign"]
            /\ UNCHANGED s_ret
       ELSE /\ s_pc' = [s_pc EXCEPT ![t] = "idle"]
            /\ s_ret' = [s_ret EXCEPT ![t] = s_instance]
    /\ UNCHANGED <<now, order_vars, billing_vars, inventory_vars, builder_vars, menu_vars, kitchen_vars,
                   customer_vars, limiter_vars, reservation_vars, s_instance, s_initialized, s_data>>

\* __init__: "self._logs = []"
SingletonInitAssign(t) ==
    /\ s_pc[t] = "assign"
    /\ s_data' = {}
    /\ s_pc' = [s_pc EXCEPT ![t] = "flag"]
    /\ UNCHANGED <<now, order_vars, billing_vars, inventory_vars, builder_vars, menu_vars, kitchen_vars,
                   customer_vars, limiter_vars, reservation_vars, s_instance, s_initialized, s_ret>>

\* __init__: "self._initialized = True", and the construction returns
SingletonInitFlag(t) ==
    /\ s_pc[t] = "flag"
    /\ s_initialized' = TRUE
    /\ s_pc' = [s_pc EXCEPT ![t] = "idle"]
    /\ s_ret' = [s_ret EXCEPT ![t] = s_instance]
    /\ UNCHANGED <<now, order_vars, billing_vars, inventory_vars, builder_vars, menu_vars, kitchen_vars,
                   customer_vars, limiter_vars, reservation_vars, s_instance, s_data>>

\* log / set / subscribe / notify on the instance, reached through the
\* module's global or through an own construction
SingletonRecord(t, entry) ==
    /\ s_pc[t] = "idle"
    /\ s_ret["main"] # 0 \/ s_ret[t] # 0
    /\ s_data' = s_data \cup {entry}
    /\ UNCHANGED <<now, order_vars, billing_vars, inventory_vars, builder_vars, menu_vars, kitchen_vars,
                   customer_vars, limiter_vars, reservation_vars, s_instance, s_initialized, s_pc, s_ret>>

\* Time passes
Tick ==
    /\ now < MaxClock
    /\ now' = now + 1
    /\ UNCHANGED <<support_vars, order_vars, billing_vars, inventory_vars, builder_vars,
                   menu_vars, kitchen_vars>>

----------------------------------------------------------------------------

\* The table "customers" when the service starts: one customer, with the
\* loyalty_points create_customer stores (0)
StoredCustomers == [k \in {"c1"} |-> [loyalty_points |-> 0]]

IdleLoyalty == [pc |-> "idle", customer_id |-> "", points_to_add |-> 0,
                loyalty_points |-> 0]

NoTablesResponse == [time |-> <<0, 0, 0>>, duration |-> 0, available |-> {}]

\* The table "menu_items" when the service starts: m1 at 12.99, available;
\* m2 is not on the menu
StoredMenu == [m \in {"m1"} |-> [price |-> 129900, is_available |-> TRUE]]

Init ==
    /\ now = 0
    /\ orders = <<>>
    /\ order_seq = 0
    /\ order_items = <<>>
    /\ order_resp = NoResponse
    /\ invoices = <<>>
    /\ invoice_seq = 0
    /\ invoice_resp = NoInvoiceResponse
    /\ ingredients = [i \in {"tomates"} |-> [current_stock |-> 5, min_stock |-> 2]]
    /\ adjust = [c \in Callers |-> Idle]
    /\ inventory_resp = NoStockResponse
    /\ inventory_movements = <<>>
    /\ n_notifications = <<>>
    /\ b_order_items = <<>>
    /\ b_order_data = None
    /\ b_order = None
    /\ f_order_item = None
    /\ ib_invoice_data = None
    /\ menu_items = StoredMenu
    /\ kitchen_resp = NoKitchenResponse
    /\ customers = StoredCustomers
    /\ loyalty = [c \in Callers |-> IdleLoyalty]
    /\ rl_time = 0
    /\ rl_requests = <<>>
    /\ rl_forwarded = [c \in ClientIps |-> <<>>]
    /\ rl_resp = [c \in ClientIps |-> 0]
    /\ reservations = <<>>
    /\ tables_resp = NoTablesResponse
    /\ s_instance = 0
    /\ s_initialized = FALSE
    /\ s_data = {}
    /\ s_pc = [t \in Threads |-> "idle"]
    /\ s_ret = [t \in Threads |-> 0]

\* The table "orders" lives in the backing service and outlives the process:
\* when the service starts it holds any number of rows, whose status_id is
\* NULL or one of the status names the repository selects by
\* (OrderRepository.get_by_status, get_active_orders).
StoredOrder(status_id) == [NewOrder(0) EXCEPT !.status_id = status_id]

InitOrders ==
    /\ now = 0
    /\ order_seq \in 0 .. MaxOrders
    /\ orders \in [1 .. order_seq -> {StoredOrder(st) : st \in OrderStatus \cup {NULL}}]
    /\ order_items = <<>>
    /\ order_resp = NoResponse
    /\ invoices = <<>>
    /\ invoice_seq = 0
    /\ invoice_resp = NoInvoiceResponse
    /\ ingredients = [i \in {"tomates"} |-> [current_stock |-> 5, min_stock |-> 2]]
    /\ adjust = [c \in Callers |-> Idle]
    /\ inventory_resp = NoStockResponse
    /\ inventory_movements = <<>>
    /\ n_notifications = <<>>
    /\ b_order_items = <<>>
    /\ b_order_data = None
    /\ b_order = None
    /\ f_order_item = None
    /\ ib_invoice_data = None
    /\ menu_items = StoredMenu
    /\ kitchen_resp = NoKitchenResponse
    /\ customers = StoredCustomers
    /\ loyalty = [c \in Callers |-> IdleLoyalty]
    /\ rl_time = 0
    /\ rl_requests = <<>>
    /\ rl_forwarded = [c \in ClientIps |-> <<>>]
    /\ rl_resp = [c \in ClientIps |-> 0]
    /\ reservations = <<>>
    /\ tables_resp = NoTablesResponse
    /\ s_instance = 0
    /\ s_initialized = FALSE
    /\ s_data = {}
    /\ s_pc = [t \in Threads |-> "idle"]
    /\ s_ret = [t \in Threads |-> 0]

\* The order lifecycle: requests handled in any order
NextOrders ==
    \/ \E items \in OrderCreateItems : CreateOrder(items)
    \/ \E o \in OrderIds : GetOrder(o)
    \/ \E o \in OrderIds, s \in RequestedStatuses : UpdateOrderStatus(o, s)
    \/ \E o \in OrderIds : DeleteOrder(o)

SpecOrders == InitOrders /\ [][NextOrders]_vars

\* The invoice lifecycle
NextBilling ==
    \/ \E o \in OrderIds, a \in InvoiceAmounts : CreateInvoice(o, a)
    \/ \E i \in InvoiceIds : GetInvoice(i)
    \/ \E i \in InvoiceIds, s \in PaymentStatuses : UpdatePaymentStatus(i, s)
    \/ Tick

SpecBilling == Init /\ [][NextBilling]_vars

\* POST /billing while no invoice has been issued: the invoice that the
\* steps after it are followed on
IssueInvoice(o, a) ==
    /\ invoice_seq = 0
    /\ CreateInvoice(o, a)

\* An issued invoice and the orders it may refer to: payment-status updates
\* of the invoice, updates and deletions of the orders
NextIssued ==
    \/ \E o \in OrderIds, a \in InvoiceAmounts : IssueInvoice(o, a)
    \/ \E i \in InvoiceIds, s \in PaymentStatuses : UpdatePaymentStatus(i, s)
    \/ \E items \in OrderCreateItems : CreateOrder(items)
    \/ \E o \in OrderIds, s \in OrderStatus : UpdateOrderStatus(o, s)
    \/ \E o \in OrderIds : DeleteOrder(o)

SpecIssued == Init /\ [][NextIssued]_vars

\* Numbering: orders and invoices created as time passes
NextNumbers ==
    \/ \E items \in OrderCreateItems : CreateOrder(items)
    \/ \E o \in OrderIds, a \in InvoiceAmounts : CreateInvoice(o, a)
    \/ Tick

SpecNumbers == Init /\ [][NextNumbers]_vars

\* Orders and their items: created, added, deleted
NextOwnership ==
    \/ \E items \in OrderCreateItems : CreateOrder(items)
    \/ \E o \in OrderIds, m \in MenuItemIds, q \in 1 .. MaxQuantity : AddOrderItem(o, m, q)
    \/ \E o \in OrderIds : DeleteOrder(o)

SpecOwnership == Init /\ [][NextOwnership]_vars

\* Loyalty points: add_loyalty_points called by several callers at once,
\* and update_loyalty_points
NextLoyalty ==
    \/ \E c \in Callers, k \in CustomerIds, p \in PointsToAdd : AddLoyaltyPointsRead(c, k, p)
    \/ \E c \in Callers : AddLoyaltyPointsWrite(c)
    \/ \E k \in CustomerIds, p \in PointsSet : UpdateLoyaltyPoints(k, p)

SpecLoyalty == Init /\ [][NextLoyalty]_vars

\* The catalogue: menu items created and updated through MenuService
NextCatalog ==
    \/ \E m \in CreatedMenuItemIds, d \in MenuItemCreates : CreateMenuItem(m, d)
    \/ \E m \in CreatedMenuItemIds, c \in Customizations : CreateMenuItemFromTemplate(m, c)
    \/ \E m \in MenuItemIds \cup CreatedMenuItemIds, d \in MenuItemUpdates : UpdateMenuItem(m, d)

SpecCatalog == Init /\ [][NextCatalog]_vars

\* The rate limiter: requests of the clients as time passes
NextLimiter ==
    \/ \E d \in TimeSteps : TimePasses(d)
    \/ \E c \in ClientIps : Dispatch(c)

SpecLimiter == Init /\ [][NextLimiter]_vars

\* Reservations of one date and the tables reported free
NextReservations ==
    \/ \E t \in TableIds, time \in ReservationTimes, d \in Durations : CreateReservation(t, time, d)
    \/ \E r \in ReservationIds, s \in ReservationStatus : UpdateReservationStatus(r, s)
    \/ \E time \in ReservationTimes, d \in Durations : GetAvailableTables(time, d)

SpecReservations == Init /\ [][NextReservations]_vars

\* A singleton: constructions and method calls of several threads
Construction(t) ==
    \/ SingletonNewCheck(t)
    \/ SingletonNewCreate(t)
    \/ SingletonNewFlag(t)
    \/ SingletonInitCheck(t)
    \/ SingletonInitAssign(t)
    \/ SingletonInitFlag(t)

NextSingleton ==
    \/ \E t \in Threads : Construction(t)
    \/ \E t \in Threads, e \in Entries : SingletonRecord(t, e)

SpecSingleton == Init /\ [][NextSingleton]_vars

\* Stock: adjust_stock called by several callers at once, and the stock route
NextInventory ==
    \/ \E c \in Callers, i \in IngredientIds, a \in Adjustments : AdjustStockRead(c, i, a)
    \/ \E c \in Callers : AdjustStockWrite(c)
    \/ \E i \in IngredientIds, q \in (0 - 1) .. MaxStock : UpdateStock(i, q)

SpecInventory == Init /\ [][NextInventory]_vars

\* Order assembly: the builder, and the service's create_order and add_order_item
NextAssembly ==
    \/ \E m \in MenuItemIds, q \in 1 .. MaxQuantity : BuilderAddOrderItem(m, q)
    \/ \E d \in Discounts : CalculateTotals(d)
    \/ Build
    \/ \E items \in OrderCreateItems : CreateOrder(items)
    \/ \E o \in OrderIds, m \in MenuItemIds, q \in 0 .. MaxQuantity : AddOrderItem(o, m, q)

SpecAssembly == Init /\ [][NextAssembly]_vars

\* Order items, by each of their makers: the service, the builder, a factory
NextItems ==
    \/ \E o \in OrderIds, m \in MenuItemIds, q \in 0 .. MaxQuantity : AddOrderItem(o, m, q)
    \/ \E m \in MenuItemIds, q \in 1 .. MaxQuantity : BuilderAddOrderItem(m, q)
    \/ \E d \in FactoryItemData : FactoryCreateOrderItem(d)

SpecItems == Init /\ [][NextItems]_vars

\* Amounts: the totals of the order builder and of the invoice builder
NextAmounts ==
    \/ \E m \in MenuItemIds, q \in 1 .. MaxQuantity : BuilderAddOrderItem(m, q)
    \/ \E d \in Discounts : CalculateTotals(d)
    \/ \E a \in BuilderAmounts : SetAmounts(a)

SpecAmounts == Init /\ [][NextAmounts]_vars

\* The menu and the items ordered from it
NextMenu ==
    \/ \E m \in MenuItemIds, d \in MenuItemUpdates : UpdateMenuItem(m, d)
    \/ \E o \in OrderIds, m \in MenuItemIds, q \in 1 .. MaxQuantity : AddOrderItem(o, m, q)

SpecMenu == Init /\ [][NextMenu]_vars

\* The kitchen: the order lifecycle of orders with items, and the kitchen routes
NextKitchen ==
    \/ \E items \in OrderCreateItems : CreateOrder(items)
    \/ \E o \in OrderIds, m \in MenuItemIds, q \in 1 .. MaxQuantity : AddOrderItem(o, m, q)
    \/ \E o \in OrderIds, s \in OrderStatus : UpdateOrderStatus(o, s)
    \/ \E o \in OrderIds, items \in KitchenItems : CreateKitchenOrder(o, items)
    \/ GetKitchenOrders

SpecKitchen == Init /\ [][NextKitchen]_vars

Next ==
    \/ NextOrders
    \/ NextBilling
    \/ NextInventory
    \/ NextAssembly
    \/ NextKitchen
    \/ NextItems
    \/ NextAmounts
    \/ NextMenu
    \/ NextIssued
    \/ NextNumbers
    \/ NextOwnership
    \/ NextLoyalty
    \/ NextCatalog
    \/ NextLimiter
    \/ NextReservations
    \/ NextSingleton

Spec == Init /\ [][Next]_vars

----------------------------------------------------------------------------
(* Order lifecycle: the properties *)

\* The transition table of the order lifecycle
AllowedTransitions ==
    {<<"pending", "preparing">>, <<"pending", "cancelled">>,
     <<"preparing", "ready">>, <<"preparing", "cancelled">>,
     <<"ready", "served">>}

\* The status of a stored order: a row without status_id is the pending
\* order create_order has just answered with
StoredStatus(o) ==
    IF orders[o].status_id = NULL THEN "pending" ELSE orders[o].status_id

\* C1: a status-transition request for a pair (current, target) that is not
\* in the transition table is rejected with InvalidTransition (400) and
\* leaves the stored status of the order as it was.
C1_InvalidTransitionRejected ==
    [][\A o \in OrderIds, s \in OrderStatus :
          (/\ UpdateOrderStatus(o, s)
           /\ Found(orders, o)
           /\ <<StoredStatus(o), s>> \notin AllowedTransitions)
          => /\ order_resp'.code = 400
             /\ orders'[o].status_id = orders[o].status_id]_vars

\* C2: a status-transition request for a pair (current, target) of the
\* transition table succeeds, the stored status of the order is then target,
\* and reads of the order (by id, by status) report target.
C2_TransitionStored ==
    [][\A o \in OrderIds, s \in OrderStatus :
          (/\ UpdateOrderStatus(o, s)
           /\ Found(orders, o)
           /\ <<StoredStatus(o), s>> \in AllowedTransitions)
          => /\ order_resp'.code = 200
             /\ order_resp'.status = s
             /\ orders'[o].status_id = s
             /\ ReadStatus(o) = s
             /\ o \in get_by_status(s)']_vars

C10_UnknownOrderNotFound ==
    [][\A o \in OrderIds, s \in OrderStatus :
          (UpdateOrderStatus(o, s) /\ ~Found(orders, o))
          => /\ order_resp'.code = 404
             /\ orders' = orders
             /\ order_items' = order_items]_vars

\* a status-transition request for an id that is not stored has been
\* answered 404 while other orders are stored
C10_Witness ==
    /\ order_resp.op = "update_order_status"
    /\ order_resp.code = 404
    /\ DOMAIN orders # {}
    /\ DOMAIN orders # 1 .. order_seq

----------------------------------------------------------------------------
(* Invoice lifecycle: the properties *)

\* The transitions of the invoice lifecycle
InvoiceTransitions ==
    {<<"pending", "paid">>, <<"pending", "cancelled">>, <<"paid", "refunded">>}

\* C6: paid_at of a stored invoice is set if and only if its status is paid;
\* it is null in every other status, whatever create_invoice and
\* update_invoice_payment_status calls came before.
C6_PaidAtIffPaid ==
    \A i \in DOMAIN invoices :
        (invoices[i].paid_at # None) <=> (invoices[i].status = "paid")

\* C7: the invoice status moves pending -> paid | cancelled and
\* paid -> refunded only: a request for one of these pairs is accepted and
\* stored; a request for any other pair is rejected with InvalidTransition
\* (400) and leaves the stored status as it was.
C7_InvoiceTransitions ==
    [][\A i \in InvoiceIds, s \in InvoiceStatus :
          (UpdatePaymentStatus(i, s) /\ Found(invoices, i))
          => IF <<invoices[i].status, s>> \in InvoiceTransitions
             THEN invoices'[i].status = s
             ELSE /\ invoice_resp'.code = 400
                  /\ invoices'[i].status = invoices[i].status]_vars

\* C8: a payment request (payment_status = paid) on an invoice that is
\* already paid is rejected with InvoiceNotPayable (400) and changes neither
\* the status nor paid_at of the invoice.
C8_SecondPaymentRejected ==
    [][\A i \in InvoiceIds :
          (/\ UpdatePaymentStatus(i, "paid")
           /\ Found(invoices, i)
           /\ invoices[i].status = "paid")
          => /\ invoice_resp'.code = 400
             /\ invoices'[i].status = invoices[i].status
             /\ invoices'[i].paid_at = invoices[i].paid_at]_vars

----------------------------------------------------------------------------
(* Issued invoices: the properties *)

\* C18: the amounts of an invoice are frozen at issuance: no payment-status
\* update and no update or deletion of the order it refers to changes its
\* subtotal, tax_amount, discount_amount or total_amount (nor removes the
\* invoice); a status change modifies only status and paid_at.
C18_AmountsFrozen ==
    [][\A i \in DOMAIN invoices :
          /\ Found(invoices', i)
          /\ \A f \in DOMAIN invoices[i] \ {"status", "paid_at"} :
                invoices'[i][f] = invoices[i][f]]_vars

\* an invoice issued with total 30.90 has been paid and refunded, and the
\* order it refers to has been created and deleted: its amounts are those
\* it was issued with
C18_Witness ==
    \E i \in DOMAIN invoices :
        /\ invoices[i].status = "refunded"
        /\ invoices[i].paid_at # None
        /\ invoices[i].order_id <= order_seq
        /\ ~Found(orders, invoices[i].order_id)
        /\ invoices[i].amounts.total_amount = 3090

\* C19: an invoice is created once per order: whatever create_invoice
\* requests are made, at most one stored invoice refers to a given order_id.
C19_OneInvoicePerOrder ==
    \A i, j \in DOMAIN invoices :
        invoices[i].order_id = invoices[j].order_id => i = j

\* C20: generated numbers are unique: no two stored orders have the same
\* order_number and no two stored invoices the same invoice_number, also
\* when two of them are created within the same second.
C20_NumbersUnique ==
    /\ \A o, p \in DOMAIN orders :
          orders[o].order_number = orders[p].order_number => o = p
    /\ \A i, j \in DOMAIN invoices :
          invoices[i].invoice_number = invoices[j].invoice_number => i = j

----------------------------------------------------------------------------
(* Stock: the properties *)

----------------------------------------------------------------------------
(* Order assembly: the properties *)

\* round(x, 2) of an amount in 1/10000: the nearest whole cent, ties to even
round2(x) ==
    LET q == x \div 100
        r == x % 100
    IN IF r < 50 THEN q * 100
       ELSE IF r > 50 THEN (q + 1) * 100
       ELSE IF q % 2 = 0 THEN q * 100 ELSE (q + 1) * 100

TotalsConsistent(totals, item_total_prices) ==
    /\ totals.total_amount =
          round2(totals.subtotal + totals.tax_amount - totals.discount_amount)
    /\ totals.subtotal = item_total_prices

RECURSIVE stored_total_price(_, _)
\* the sum of total_price over the stored items of order o among ids
stored_total_price(o, ids) ==
    IF ids = {} THEN 0
    ELSE LET i == CHOOSE x \in ids : TRUE
         IN (IF order_items[i].order_id = o THEN order_items[i].total_price ELSE 0)
            + stored_total_price(o, ids \ {i})

\* C5: for every stored order and every order the builder has built,
\* total_amount = round(subtotal + tax_amount - discount_amount, 2) and
\* subtotal = the sum of total_price over the order's items, after any
\* sequence of add_order_item / calculate_totals / build and
\* create_order / add_order_item: no order is left with stale totals.
C5_TotalsConsistent ==
    /\ \A o \in DOMAIN orders :
          TotalsConsistent(orders[o], stored_total_price(o, DOMAIN order_items))
    /\ \A b \in b_order :
          TotalsConsistent(b.totals, sum_total_price(b.items))

----------------------------------------------------------------------------
(* Kitchen: the properties *)

\* The items of stored order o, as (menu item, quantity)
OrderItemsOf(o) ==
    {<<order_items[i].menu_item_id, order_items[i].quantity>> :
        i \in {x \in DOMAIN order_items : order_items[x].order_id = o}}

\* The items of a kitchen ticket, as (name, quantity)
TicketItems(t) == {<<it.name, it.quantity>> : it \in t.items}

C12_TicketOnPreparing ==
    [][\A o \in OrderIds :
          (/\ UpdateOrderStatus(o, "preparing")
           /\ Found(orders, o)
           /\ StoredStatus(o) = "pending")
          => \E t \in get_kitchen_orders' :
                /\ t.order_id = o
                /\ TicketItems(t) = OrderItemsOf(o)']_vars

----------------------------------------------------------------------------
(* Order creation: the properties *)

\* A line item can be committed: its menu item exists and is available
Committable(item) ==
    /\ Found(menu_items, item.menu_item_id)
    /\ menu_items[item.menu_item_id].is_available

\* The requested items, as (menu item, quantity)
RequestedItems(items) ==
    {<<items[k].menu_item_id, items[k].quantity>> : k \in DOMAIN items}

\* C13: order creation is all-or-nothing: a create-order request with a
\* line item that cannot be committed persists no order row and no item
\* row; any other request persists the order and all of its items.
C13_CreateAllOrNothing ==
    [][\A items \in OrderCreateItems :
          CreateOrder(items)
          => IF \A k \in DOMAIN items : Committable(items[k])
             THEN /\ Found(orders', order_seq + 1)
                  /\ OrderItemsOf(order_seq + 1)' = RequestedItems(items)
             ELSE /\ orders' = orders
                  /\ order_items' = order_items]_vars

----------------------------------------------------------------------------
(* Order items: the properties *)

ItemPriceExact(item) == item.total_price = item.quantity * item.unit_price

\* C14: every order item, whoever made it (OrderService.add_order_item,
\* OrderBuilder.add_order_item, a factory's create_order_item), has
\* total_price = quantity * unit_price.
C14_TotalPriceExact ==
    /\ \A i \in DOMAIN order_items : ItemPriceExact(order_items[i])
    /\ \A k \in DOMAIN b_order_items : ItemPriceExact(b_order_items[k])
    /\ \A item \in f_order_item : ItemPriceExact(item)

\* C15: the unit_price of an order item is the price its menu item has when
\* the order item is created, and no later step (a price update of the menu
\* item among them) changes it.
C15_UnitPriceSnapshot ==
    [][/\ \A i \in DOMAIN order_items' \ DOMAIN order_items :
             Found(menu_items, order_items'[i].menu_item_id)
             => order_items'[i].unit_price =
                   menu_items[order_items'[i].menu_item_id].price
       /\ \A i \in DOMAIN order_items \cap DOMAIN order_items' :
             order_items'[i].unit_price = order_items[i].unit_price]_vars

----------------------------------------------------------------------------
(* Amounts: the properties *)

\* The order of the scenario: 2 x an item at 12.99 and 1 x an item at 18.99
ScenarioItems(items) ==
    /\ Len(items) = 2
    /\ {<<items[k].quantity, items[k].unit_price>> : k \in DOMAIN items}
          = {<<2, 129900>>, <<1, 189900>>}

\* C16: money is rounded once, at the final total: for 2 x 12.99 and
\* 1 x 18.99 with tax_rate 0.19 and no discount, calculate_totals yields
\* subtotal 44.97, tax_amount 8.5443 and total_amount 53.51, the line
\* totals being 25.98 and 18.99 unrounded.
C16_RoundedOnce ==
    [][(CalculateTotals(0) /\ ScenarioItems(b_order_items))
          => /\ \A k \in DOMAIN b_order_items : ItemPriceExact(b_order_items[k])
             /\ b_order_data' = Some([subtotal        |-> 449700,
                                      tax_amount      |-> 85443,
                                      discount_amount |-> 0,
                                      total_amount    |-> 535100])]_vars

\* discount_amount <= subtotal, hence total_amount >= tax_amount >= 0
DiscountClamped(d) ==
    /\ d.discount_amount <= d.subtotal
    /\ d.total_amount >= d.tax_amount
    /\ d.total_amount >= 0

\* C17: whatever discount is passed to the computation of the totals
\* (calculate_totals, set_amounts), the discount applied is at most the
\* subtotal, so that the total is at least the tax and never negative.
C17_DiscountClamped ==
    /\ \A d \in b_order_data : DiscountClamped(d)
    /\ \A d \in ib_invoice_data : DiscountClamped(d)

----------------------------------------------------------------------------
(* Stock movements, notifications, concurrent adjustments: the properties *)

\* The rows appended to a table kept as a sequence, by the step
Appended(before, after) == SubSeq(after, Len(before) + 1, Len(after))

\* C21: every successful adjust_stock appends exactly one movement record
\* for its ingredient carrying the signed delta, and no step modifies or
\* removes a record already appended.
C21_MovementRecorded ==
    [][/\ Len(inventory_movements') >= Len(inventory_movements)
       /\ SubSeq(inventory_movements', 1, Len(inventory_movements)) = inventory_movements
       /\ \A c \in Callers :
             (AdjustStockWrite(c) /\ adjust'[c].returned # None)
             => /\ Len(Appended(inventory_movements, inventory_movements')) = 1
                /\ Appended(inventory_movements, inventory_movements')[1].ingredient_id
                      = adjust[c].ingredient_id
                /\ Appended(inventory_movements, inventory_movements')[1].quantity
                      = adjust[c].adjustment]_vars

\* The events of one type emitted for ingredient i by the step
Emitted(event_type, i) ==
    {k \in DOMAIN Appended(n_notifications, n_notifications') :
        /\ Appended(n_notifications, n_notifications')[k].event_type = event_type
        /\ Appended(n_notifications, n_notifications')[k].ingredient_id = i}

\* C22: an adjust_stock that takes the stock of an ingredient from above
\* min_stock to below it emits a low_stock event, and one that takes it to
\* exactly 0 emits exactly one out_of_stock event.
C22_StockNotifications ==
    [][\A c \in Callers :
          (AdjustStockWrite(c) /\ adjust'[c].returned # None)
          => LET i == adjust[c].ingredient_id
                 old == ingredients[i].current_stock
                 new == ingredients'[i].current_stock
             IN /\ (old > ingredients[i].min_stock /\ new < ingredients[i].min_stock)
                      => Emitted("low_stock", i) # {}
                /\ (old > 0 /\ new = 0)
                      => Cardinality(Emitted("out_of_stock", i)) = 1]_vars

\* C23: adjust_stock on an id that has no ingredient returns no ingredient
\* and writes nothing: the call is over after its read, no stock changes
\* and no movement record is added.
C23_UnknownIngredient ==
    [][\A c \in Callers, i \in IngredientIds, a \in Adjustments :
          (AdjustStockRead(c, i, a) /\ ~Found(ingredients, i))
          => /\ adjust'[c].pc = "returned"
             /\ adjust'[c].returned = None
             /\ ingredients' = ingredients
             /\ inventory_movements' = inventory_movements]_vars

\* adjust_stock has returned None for an id that has no ingredient, after
\* another call has adjusted the stock of an ingredient that exists
C23_Witness ==
    \E c, d \in Callers :
        /\ adjust[c].pc = "returned"
        /\ ~Found(ingredients, adjust[c].ingredient_id)
        /\ adjust[c].ingredient_id \in IngredientIds
        /\ adjust[c].returned = None
        /\ adjust[d].pc = "returned"
        /\ adjust[d].returned # None
        /\ inventory_movements = <<>>

\* C27: two concurrent adjust_stock calls on one ingredient lose no update.
\* When a call writes after another call, which read the same stock s, has
\* written a different stock in between (the calls overlap), the stock it
\* writes is that of the two adjustments applied to s one after the other,
\* in one of the two orders.
C27_NoLostUpdate ==
    [][\A c, d \in Callers :
          (/\ AdjustStockWrite(c)
           /\ c # d
           /\ adjust[d].pc = "returned"
           /\ adjust[d].ingredient_id = adjust[c].ingredient_id
           /\ adjust[d].current_stock = adjust[c].current_stock
           /\ adjust[d].returned = Some(ingredients[adjust[c].ingredient_id].current_stock)
           /\ adjust[d].returned # Some(adjust[c].current_stock))
          => LET s == adjust[c].current_stock
                 dc == adjust[c].adjustment
                 dd == adjust[d].adjustment
             IN ingredients'[adjust[c].ingredient_id].current_stock
                   \in {NewStock(NewStock(s, dd), dc), NewStock(NewStock(s, dc), dd)}]_vars

----------------------------------------------------------------------------
(* Ownership of order items: the properties *)

\* C24: an order owns its items: whatever create_order, add_order_item and
\* delete_order requests are handled, every stored order item refers to a
\* stored order (delete_order removes the items with the order or is
\* refused while it has items; add_order_item stores no item for an order
\* id that is not stored).
C24_ItemsOwned ==
    \A i \in DOMAIN order_items : Found(orders, order_items[i].order_id)

----------------------------------------------------------------------------
(* Customers: the properties *)

\* C25: the loyalty_points of every customer are never negative, whatever
\* add_loyalty_points (with any integer) and update_loyalty_points calls
\* are made and however they interleave.
C25_LoyaltyNonNegative ==
    \A k \in DOMAIN customers : customers[k].loyalty_points >= 0

----------------------------------------------------------------------------
(* Menu item creation: the properties *)

\* C26: every menu item in the store has a price > 0, whichever creation
\* path of MenuService wrote it
C26_PricePositive ==
    \A m \in DOMAIN menu_items : menu_items[m].price > 0

----------------------------------------------------------------------------
(* Rate limiting: the properties *)

\* The requests of a client passed to the application at a time t with
\* w <= t < w + Window
ForwardedInWindow(c, w) ==
    Cardinality({k \in DOMAIN rl_forwarded[c] :
                    w <= rl_forwarded[c][k] /\ rl_forwarded[c][k] < w + Window})

\* The requests of a client passed to the application less than Window ago
AdmittedYoung(c) ==
    Cardinality({k \in DOMAIN rl_forwarded[c] : rl_time - rl_forwarded[c][k] < Window})

\* What is recorded for a client, nothing for one never seen
Recorded(reqs, c) == IF c \in DOMAIN reqs THEN reqs[c] ELSE <<>>

\* C28: per client no window of Window seconds holds more than
\* requests_per_minute forwarded requests; a request of a client that has
\* requests_per_minute admitted requests younger than Window gets 429, is not
\* forwarded and not recorded; a request leaves the other clients' lists alone
C28_RateLimited ==
    [][ /\ \A c \in ClientIps, w \in 0 .. MaxTime :
              ForwardedInWindow(c, w)' <= requests_per_minute
        /\ \A c \in ClientIps :
              Dispatch(c) =>
                 /\ AdmittedYoung(c) >= requests_per_minute =>
                       /\ rl_resp'[c] = 429
                       /\ rl_forwarded'[c] = rl_forwarded[c]
                       /\ Len(Recorded(rl_requests', c)) <= Len(Recorded(rl_requests, c))
                 /\ AdmittedYoung(c) < requests_per_minute =>
                       /\ rl_resp'[c] = 200
                       /\ rl_forwarded'[c] = Append(rl_forwarded[c], rl_time)
                 /\ \A other \in ClientIps \ {c} :
                       /\ rl_forwarded'[other] = rl_forwarded[other]
                       /\ Recorded(rl_requests', other) = Recorded(rl_requests, other)
                       /\ rl_resp'[other] = rl_resp[other] ]_vars

\* One client was refused with requests_per_minute young admitted requests
\* while the other client's request at the same time was forwarded
C28_Witness ==
    /\ rl_resp["ip1"] = 429
    /\ AdmittedYoung("ip1") = requests_per_minute
    /\ rl_resp["ip2"] = 200
    /\ Len(rl_forwarded["ip2"]) > 0
    /\ rl_forwarded["ip2"][Len(rl_forwarded["ip2"])] = rl_time
    /\ \E k \in DOMAIN rl_forwarded["ip1"] : rl_forwarded["ip1"][k] < rl_time

----------------------------------------------------------------------------
(* Table availability: the properties *)

\* [s1, s1 + d1) and [s2, s2 + d2) of the same date share an instant; an
\* interval that runs past midnight is not cut at midnight
Overlaps(time1, duration1, time2, duration2) ==
    /\ strptime_time(time1) < strptime_time(time2) + duration2 * 60
    /\ strptime_time(time2) < strptime_time(time1) + duration1 * 60

\* C29: get_available_tables returns no table that has a confirmed or seated
\* reservation whose interval overlaps the one asked for, intervals that run
\* past midnight included; and _time_conflicts gives the same answer with its
\* two (time, duration) arguments exchanged
C29_NoOverlappingTable ==
    [][ (\E time \in ReservationTimes, d \in Durations : GetAvailableTables(time, d)) =>
          /\ \A r \in DOMAIN reservations :
                (/\ reservations[r].status \in {"confirmed", "seated"}
                 /\ Overlaps(reservations[r].reservation_time, reservations[r].duration,
                             tables_resp'.time, tables_resp'.duration))
                => reservations[r].table_id \notin tables_resp'.available
          /\ \A time1 \in ReservationTimes, time2 \in ReservationTimes,
                d1 \in Durations, d2 \in Durations :
                time_conflicts(time1, time2, d1, d2) = time_conflicts(time2, time1, d2, d1) ]_vars

----------------------------------------------------------------------------
(* Singletons: the properties *)

====
